---- MODULE Spec2Model ----
(***************************************************************************)
(* pydht: replicated key-value storage.  A model of the coordinator        *)
(* (pydht/replicated.py), the HTTP surface (pydht/views.py), the internal  *)
(* replication client (pydht/client.py) and the local store (pydht/dao.py).*)
(*                                                                         *)
(* One `call` is one execution of an EntityView handler on a node.  A call *)
(* made by a client has the id <<r>>; the call a replica task i of call id *)
(* causes on a peer has the id Append(id, i).  Each handler runs           *)
(* atomically between two awaits of the single-threaded event loop.        *)
(***************************************************************************)
EXTENDS Integers, Sequences, FiniteSets, TLC

VARIABLES
    db,            \* node -> the gdbm map of its DAO (a partial map from keys)
    calls,         \* call id -> the state of that handler execution
    clock,         \* the wall clock read by datetime.utcnow()
    cluster_urls,  \* Settings.cluster_urls, the same list on every node
    accepted,      \* history: node -> key -> timestamps written to its DAO
    lastUp,        \* history: node -> key -> the last record given to DAO.upsert
    lastGet,       \* the outcome of the last direct DAO.get
    watcher        \* node -> the TasksWatcher of its storage, and its shutdown

vars == <<db, calls, clock, cluster_urls, accepted, lastUp, lastGet, watcher>>

----------------------------------------------------------------------------
(* Bounds of the model *)

MaxClock == 2
MaxClientReqs == 1
MaxLocalReqs == 2
MaxLWWReqs == 3

(* The scenarios' cluster: membership M = {A, B, C}. *)
Nodes == {"A", "B", "C"}
Membership == <<"A", "B", "C">>
Keys == {"k1"}
StoreKeys == {"k1", "k2"}
Values == {"v1"}

----------------------------------------------------------------------------
(* Data *)

None == "None"      \* Python's None as a value (a tombstone's value) or a key
PyNone == [none |-> TRUE]   \* Python's None where a Record may stand
Local == "Local"    \* Python's None as a url of the target list
NoTs == 0           \* Python's None as a timestamp / an absent x-last-modified

Record(value, timestamp) == [value |-> value, timestamp |-> timestamp]

NoRecord == Record(None, NoTs)

Min(a, b) == IF a < b THEN a ELSE b

----------------------------------------------------------------------------
(* pydht/dao.py: the local store *)

KeyRank(key) == CASE key = "k1" -> 1 [] key = "k2" -> 2 [] OTHER -> 3

(* gdbm's nextkey: the next stored key after `key`, None at the end. *)
NextKey(d, key) ==
    LET later == {k \in DOMAIN d : KeyRank(k) > KeyRank(key)}
    IN  IF later = {} THEN None
        ELSE CHOOSE k \in later : \A j \in later : KeyRank(k) <= KeyRank(j)

(* DAO.range: the sequence of (key, value) pairs the generator yields. *)
RECURSIVE DAO_range(_, _, _)
DAO_range(d, from_key, to_key) ==
    IF from_key = None \/ from_key = to_key THEN <<>>
    ELSE IF from_key \notin DOMAIN d THEN <<>>
    ELSE <<(<<from_key, d[from_key]>>)>> \o DAO_range(d, NextKey(d, from_key), to_key)

DAO_get_first(d, key) ==
    IF DOMAIN d = {} THEN [found |-> FALSE, value |-> NoRecord]
    ELSE [found |-> TRUE,
          value |-> d[CHOOSE k \in DOMAIN d : \A j \in DOMAIN d : KeyRank(k) <= KeyRank(j)]]

(* DAO.get: [found, value]; found = FALSE is the KeyError. *)
DAO_get(d, key) ==
    LET r == DAO_range(d, key, None)
    IN  IF r = <<>> THEN [found |-> FALSE, value |-> NoRecord]
        ELSE [found |-> TRUE, value |-> r[1][2]]

DAO_upsert_drop_tombstone(d, key, value) ==
    IF value # PyNone /\ value.value # None
    THEN IF key \in DOMAIN d THEN [d EXCEPT ![key] = value] ELSE d @@ (key :> value)
    ELSE [k \in DOMAIN d \ {key} |-> d[k]]

(* DAO.upsert: the value is stored unless it is None, and then the key is
   deleted.  ReplicatedStorage passes a Record, which is never None. *)
DAO_upsert(d, key, value) ==
    IF value # PyNone
    THEN IF key \in DOMAIN d THEN [d EXCEPT ![key] = value] ELSE d @@ (key :> value)
    ELSE [k \in DOMAIN d \ {key} |-> d[k]]

----------------------------------------------------------------------------
(* pydht/replicated.py: placement and parameter checks *)

(* hashlib.sha1(key + url.encode()).digest(): a fixed injective score. *)
Sha1Digest(key, url) ==
    CASE url = "A" -> (IF key = "k1" THEN 2 ELSE 3)
      [] url = "B" -> (IF key = "k1" THEN 1 ELSE 2)
      [] OTHER     -> (IF key = "k1" THEN 3 ELSE 1)

(* ReplicatedStorage.__init__: self.url, the member that is this node. *)
SelfUrl(node, urls) ==
    IF \E i \in 1..Len(urls) : urls[i] = node THEN node ELSE None

rendezvous_urls(urls, self_url, key, from_) ==
    IF urls = <<>> THEN <<Local>>
    ELSE LET ordered == SortSeq(urls, LAMBDA a, b : Sha1Digest(key, a) < Sha1Digest(key, b))
             mapped == [i \in 1..Len(ordered) |->
                           IF ordered[i] # self_url THEN ordered[i] ELSE Local]
         IN  SubSeq(mapped, 1, Min(from_, Len(mapped)))

(* check_replicas_ranges: TRUE when it raises ValueError. *)
check_replicas_ranges(urls, ack, from_) ==
    LET size == Len(urls)
    IN  \/ from_ < 1 \/ from_ > size
        \/ ack < 1 \/ ack > from_

----------------------------------------------------------------------------
(* pydht/client.py: the query model *)

(* EntityQuery.check_replicas: TRUE when the validator raises. *)
check_replicas(replicas) ==
    LET ack == replicas[1]
        from_ == replicas[2]
    IN  \/ from_ <= 0 \/ ack <= 0
        \/ ack > from_

(* An x-last-modified header that is no datetime. *)
BadHeader == -1

(* EntityQuery.from_request: TRUE when it raises ValidationError.  id is
   required (None: absent) with min_length 1; replicas, when present, goes
   through check_replicas. *)
EntityQuery_invalid(key, replicas) ==
    \/ key = None
    \/ key = ""
    \/ replicas # <<>> /\ check_replicas(replicas)

(* EntityHeaders.from_request: TRUE when it raises ValidationError. *)
EntityHeaders_invalid(x_last_modified) == x_last_modified = BadHeader

(* EntityQuery.replicas_pair *)
replicas_pair(replicas) == IF replicas = <<>> THEN <<1, 1>> ELSE replicas

(* A timestamp of the model is a count of half seconds: the datetime it
   stands for. *)
TicksPerSecond == 2
TickMicros == 500000

DateTime(t) ==
    [second |-> t \div TicksPerSecond, microsecond |-> (t % TicksPerSecond) * TickMicros]

Ticks(dt) == dt.second * TicksPerSecond + dt.microsecond \div TickMicros

(* datetime.isoformat(): the seconds and, unless it is 0, the microsecond *)
isoformat(dt) ==
    IF dt.microsecond = 0 THEN <<dt.second>> ELSE <<dt.second, dt.microsecond>>

(* pydantic's parsing of a datetime header (EntityHeaders.x_last_modified) *)
parse_datetime(text) ==
    [second |-> text[1], microsecond |-> IF Len(text) > 1 THEN text[2] ELSE 0]

(* EntityClient.put / delete: `headers[X_LAST_MODIFIED] = timestamp.isoformat()`,
   as the peer's EntityHeaders.from_request reads it. *)
HopTimestamp(timestamp) == Ticks(parse_datetime(isoformat(DateTime(timestamp))))

(* EntityClient.url_for: the query of the request; `replicas` is set only
   when both ack and from_ are given (<<>>: no replicas parameter). *)
url_for(key, ack, from_) ==
    [id |-> key,
     replicas |-> IF ack # None /\ from_ # None THEN <<ack, from_>> ELSE <<>>]

EntityClient_headers_unmarked(replicated) == None

(* EntityClient.get / put / delete: `if replicated: headers[X_REPLICATED] =
   "yes"` (None: the header is absent). *)
EntityClient_headers(replicated) == IF replicated THEN "yes" ELSE None

(* EntityHeaders.x_replicated: a bool field, False by default *)
parse_x_replicated(header) == header = "yes"

(* EntityClient.effective_timestamp, given the clock's reading *)
effective_timestamp(timestamp, now) == IF timestamp # NoTs THEN timestamp ELSE now

----------------------------------------------------------------------------
(* pydht/views.py: what the views hand to the storage *)

(* EntityView passes no `replicated` argument: the storage's default. *)
ViewReplicated(x_replicated) == FALSE

Response(status, body, last_modified) ==
    [status |-> status, body |-> body, last_modified |-> last_modified]

NoResponse == Response(0, None, NoTs)

----------------------------------------------------------------------------
(* Calls and replica tasks *)

(* The path of @routes.view("/v0/entity"), and a path no route matches. *)
EntityPath == "/v0/entity"
OtherPath == "/v0/other"

(* A task of asyncio.create_task(get_url / upsert_url):
   pending (created, not yet run), sent (its HTTP request is out),
   ok | keyerror | clienterror | timeouterror (completed), cancelled. *)
Task(url) == [url |-> url, st |-> "pending", rec |-> NoRecord]

Completed(task) == task.st \in {"ok", "keyerror", "clienterror", "timeouterror"}

NewCall(node, method, key, body, x_last_modified, x_replicated, replicas, acked) ==
    [node |-> node, path |-> EntityPath, method |-> method, key |-> key, body |-> body,
     x_last_modified |-> x_last_modified, x_replicated |-> x_replicated,
     replicas |-> replicas,
     pc |-> "start", ack |-> 0, from_ |-> 0, timestamp |-> NoTs,
     tasks |-> <<>>, doneq |-> <<>>, consumed |-> 0,
     replies |-> <<>>, success |-> 0,
     result |-> PyNone, resp |-> NoResponse,
     acked |-> acked]

ClientIds == {id \in DOMAIN calls : Len(id) = 1}

IsUpsert(c) == c.method \in {"PUT", "DELETE"}

(* The value a handler gives to storage.upsert: the body, or None to delete. *)
UpsertValue(c) == IF c.method = "PUT" THEN c.body ELSE None

(* History: the records of the client upserts answered with success so far. *)
AckedUpserts ==
    {Record(UpsertValue(calls[id]), calls[id].timestamp) :
        id \in {i \in ClientIds : /\ IsUpsert(calls[i])
                                   /\ calls[i].pc = "done"
                                   /\ calls[i].resp.status \in {201, 202}}}

----------------------------------------------------------------------------
(* pydht/views.py: responses *)

(* web.HTTPNotFound, with e["preserve"] set or not *)
HTTPNotFound(preserve) == [exception |-> "HTTPNotFound", preserve |-> preserve]

exceptions_middleware_reraise(e) ==
    CASE e.exception = "ValidationError" -> Response(400, None, NoTs)
      [] OTHER                           -> Response(404, None, NoTs)

(* exceptions_middleware: the response of a handler that raised
   ValidationError or HTTPNotFound. *)
exceptions_middleware(e) ==
    CASE e.exception = "ValidationError" -> Response(400, None, NoTs)
      [] OTHER -> IF e.preserve THEN Response(404, None, NoTs)
                  ELSE Response(400, None, NoTs)

(* not_found(): a 404 marked `preserve`, with no headers. *)
not_found == exceptions_middleware(HTTPNotFound(TRUE))

(* The status a handler's exception ends in: ValidationError is answered by
   exceptions_middleware, NotEnoughReplicasError by the view, and a ValueError
   is caught by neither and leaves the server as a 500. *)
ErrorResponse(exception) ==
    CASE exception = "ValidationError"        -> Response(400, None, NoTs)
      [] exception = "NotEnoughReplicasError" -> Response(504, None, NoTs)
      [] OTHER                                -> Response(500, None, NoTs)

(* EntityView.get after storage.get returned `record` (PyNone: KeyError). *)
EntityView_get_response(record) ==
    IF record = PyNone THEN not_found
    ELSE IF record.value = None THEN not_found
    ELSE Response(200, record.value, record.timestamp)

(* EntityView.put / EntityView.delete after storage.upsert returned. *)
EntityView_upsert_response(method) ==
    IF method = "PUT" THEN Response(201, None, NoTs) ELSE Response(202, None, NoTs)

----------------------------------------------------------------------------
(* pydht/replicated.py: the coordinator *)

(* The target list of get / upsert. *)
TargetUrls(replicated, urls, self_url, key, from_) ==
    IF replicated THEN <<Local>> ELSE rendezvous_urls(urls, self_url, key, from_)

upsert_timestamp_always_now(timestamp, now) == now

(* upsert: `if not timestamp: timestamp = datetime.utcnow()` *)
upsert_timestamp(timestamp, now) == IF timestamp = NoTs THEN now ELSE timestamp

RECURSIVE GetLoop_absent_not_counted(_, _, _, _)
GetLoop_absent_not_counted(replies, q, tasks, ack) ==
    IF q = <<>> THEN [replies |-> replies, q |-> q, broke |-> FALSE, raised |-> FALSE]
    ELSE LET t == tasks[Head(q)]
             r2 == IF t.st \in {"keyerror", "clienterror"} THEN replies
                   ELSE Append(replies, t.rec)
         IN  IF t.st = "timeouterror"
             THEN [replies |-> replies, q |-> Tail(q), broke |-> FALSE, raised |-> TRUE]
             ELSE IF Len(r2) >= ack
             THEN [replies |-> r2, q |-> Tail(q), broke |-> TRUE, raised |-> FALSE]
             ELSE GetLoop_absent_not_counted(r2, Tail(q), tasks, ack)

(* get's loop over as_completed(tasks): the completed tasks of queue q are
   taken in completion order; the loop breaks when ack replies are collected.
   broke = FALSE: the queue is empty and the loop waits or, with no task
   left, ends.  raised = TRUE: `await task` raised an exception that is
   neither KeyError nor ClientError and that leaves the loop and get. *)
RECURSIVE GetLoop(_, _, _, _)
GetLoop(replies, q, tasks, ack) ==
    IF q = <<>> THEN [replies |-> replies, q |-> q, broke |-> FALSE, raised |-> FALSE]
    ELSE LET t == tasks[Head(q)]
             r2 == CASE t.st = "keyerror"    -> Append(replies, PyNone)
                     [] t.st = "clienterror" -> replies
                     [] OTHER                -> Append(replies, t.rec)
         IN  IF t.st = "timeouterror"
             THEN [replies |-> replies, q |-> Tail(q), broke |-> FALSE, raised |-> TRUE]
             ELSE IF Len(r2) >= ack
             THEN [replies |-> r2, q |-> Tail(q), broke |-> TRUE, raised |-> FALSE]
             ELSE GetLoop(r2, Tail(q), tasks, ack)

UpsertLoop_first_success(success, q, tasks, ack) ==
    IF q = <<>> THEN [success |-> success, q |-> q, broke |-> FALSE, raised |-> FALSE]
    ELSE LET t == tasks[Head(q)]
             s2 == IF t.st = "clienterror" THEN success ELSE success + 1
         IN  IF t.st = "timeouterror"
             THEN [success |-> success, q |-> Tail(q), broke |-> FALSE, raised |-> TRUE]
             ELSE [success |-> s2, q |-> Tail(q), broke |-> s2 >= 1, raised |-> FALSE]

(* upsert's loop over as_completed(tasks): it breaks at ack successes; an
   exception of `await task` that is no ClientError leaves the loop and
   upsert. *)
RECURSIVE UpsertLoop(_, _, _, _)
UpsertLoop(success, q, tasks, ack) ==
    IF q = <<>> THEN [success |-> success, q |-> q, broke |-> FALSE, raised |-> FALSE]
    ELSE LET t == tasks[Head(q)]
             s2 == IF t.st = "clienterror" THEN success ELSE success + 1
         IN  IF t.st = "timeouterror"
             THEN [success |-> success, q |-> Tail(q), broke |-> FALSE, raised |-> TRUE]
             ELSE IF s2 >= ack
             THEN [success |-> s2, q |-> Tail(q), broke |-> TRUE, raised |-> FALSE]
             ELSE UpsertLoop(s2, Tail(q), tasks, ack)

upsert_raise_rollback(d, key) == [k \in DOMAIN d \ {key} |-> d[k]]

(* upsert, `if success < ack: raise NotEnoughReplicasError(...)`: the node's
   store after the raise.  Nothing that the replica tasks wrote is undone. *)
upsert_raise(d, key) == d

(* any(replies): a Record is truthy, None is not. *)
AnyReply(replies) == \E i \in 1..Len(replies) : replies[i] # PyNone

(* max(filter(None, replies), key=lambda r: r.timestamp): the first of the
   replies with the greatest timestamp. *)
MaxReply(replies) ==
    LET present == SelectSeq(replies, LAMBDA r : r # PyNone)
        best == CHOOSE i \in 1..Len(present) :
                    /\ \A j \in 1..Len(present) : present[j].timestamp <= present[i].timestamp
                    /\ \A j \in 1..(i - 1) : present[j].timestamp < present[i].timestamp
    IN  present[best]

(* get, after its loop collected ack replies: the record returned, PyNone
   for the KeyError. *)
GetResult(replies) == IF ~AnyReply(replies) THEN PyNone ELSE MaxReply(replies)

(* task.cancel() for every task of the call *)
CancelAll(tasks) ==
    [i \in 1..Len(tasks) |->
        IF Completed(tasks[i]) THEN tasks[i] ELSE [tasks[i] EXCEPT !.st = "cancelled"]]

upsert_return_cancel(tasks) == CancelAll(tasks)

(* upsert returns after its loop broke at ack successes: the tasks of the
   call as it leaves them.  It cancels none. *)
upsert_return(tasks) == tasks

----------------------------------------------------------------------------
(* pydht/replicated.py: TasksWatcher *)

(* A replica task is named by the id of the call its request would cause:
   task i of call id is Append(id, i). *)
TaskCall(t) == SubSeq(t, 1, Len(t) - 1)

(* The state of task t.  The handler of an internal hop that its caller
   has read the answer of is forgotten; it had one task (ack = from_ = 1),
   which had completed when the handler answered: "forgotten". *)
TaskState(t) ==
    IF TaskCall(t) \in DOMAIN calls THEN calls[TaskCall(t)].tasks[t[Len(t)]].st
    ELSE "forgotten"

(* task.done(): it returned, raised or was cancelled. *)
TaskDone(t) ==
    TaskState(t) \in {"ok", "keyerror", "clienterror", "timeouterror", "cancelled", "forgotten"}

(* isinstance(result, Exception) for the result gather gives for task t:
   CancelledError is a BaseException only. *)
TaskRaised(t) == TaskState(t) \in {"keyerror", "clienterror", "timeouterror"}

(* TasksWatcher.__init__: no tasks, the runner in its loop.  runner is
   idle (in its loop outside asyncio.wait), waiting (inside asyncio.wait on
   the tasks of `waiting`) or cancelled; phase is the progress of
   ReplicatedStorage.aclose: up, stopping (runner.cancel() done, awaiting
   the runner), gathering (tasks cancelled, awaiting them), closed. *)
TasksWatcher_init ==
    [tasks |-> {}, runner |-> "idle", waiting |-> {}, logged |-> {}, phase |-> "up"]

TasksWatcher_watch_none(w, tasks) == w

(* TasksWatcher.watch *)
TasksWatcher_watch(w, tasks) == [w EXCEPT !.tasks = @ \cup tasks]

----------------------------------------------------------------------------
(* Actions *)

(* A client sends a request to a node. *)
ClientRequest(node, method, key, body, x_last_modified, replicas) ==
    /\ calls' = calls @@ (<<Cardinality(ClientIds) + 1>> :>
            NewCall(node, method, key, body, x_last_modified,
                    parse_x_replicated(None), replicas, AckedUpserts))
    /\ UNCHANGED <<db, clock, cluster_urls, accepted, lastUp, lastGet, watcher>>

(* A client sends a request with a path that no route matches: the router's
   handler raises a bare HTTPNotFound, which exceptions_middleware meets. *)
RouteNotFound(node, method) ==
    /\ calls' = calls @@ (<<Cardinality(ClientIds) + 1>> :>
            [NewCall(node, method, None, None, NoTs, parse_x_replicated(None), <<>>, {})
                EXCEPT !.path = OtherPath, !.pc = "done",
                       !.resp = exceptions_middleware(HTTPNotFound(FALSE))])
    /\ UNCHANGED <<db, clock, cluster_urls, accepted, lastUp, lastGet, watcher>>

(* EntityView.get/put/delete up to the first await of the storage's loop:
   the query is validated, the ranges are checked, the timestamp is fixed,
   the replica tasks are created and handed to the watcher. *)
HandleStart(id) ==
    LET c == calls[id]
        pair == replicas_pair(c.replicas)
        urls == TargetUrls(ViewReplicated(c.x_replicated), cluster_urls,
                           SelfUrl(c.node, cluster_urls), c.key, pair[2])
    IN  /\ c.pc = "start"
        /\ IF \/ EntityQuery_invalid(c.key, c.replicas)
              \/ IsUpsert(c) /\ EntityHeaders_invalid(c.x_last_modified)
           THEN /\ calls' = [calls EXCEPT ![id] =
                        [c EXCEPT !.pc = "done", !.resp = ErrorResponse("ValidationError")]]
                /\ clock' = clock
           ELSE IF check_replicas_ranges(cluster_urls, pair[1], pair[2])
           THEN /\ calls' = [calls EXCEPT ![id] =
                        [c EXCEPT !.pc = "done", !.resp = ErrorResponse("ValueError")]]
                /\ clock' = clock
           ELSE \E now \in (IF IsUpsert(c) /\ c.x_last_modified = NoTs
                            THEN clock..MaxClock ELSE {clock}) :
                /\ clock' = now
                /\ calls' = [calls EXCEPT ![id] =
                        [c EXCEPT !.pc = "wait", !.ack = pair[1], !.from_ = pair[2],
                                  !.timestamp = IF IsUpsert(c)
                                                THEN upsert_timestamp(c.x_last_modified, now)
                                                ELSE NoTs,
                                  !.tasks = [i \in 1..Len(urls) |-> Task(urls[i])]]]
        /\ watcher' = IF calls'[id].pc = "wait"
                      THEN [watcher EXCEPT ![c.node] =
                               TasksWatcher_watch(@, {Append(id, i) : i \in 1..Len(urls)})]
                      ELSE watcher
        /\ UNCHANGED <<db, cluster_urls, accepted, lastUp, lastGet>>

(* A completed task enters the queue of as_completed while the loop runs. *)
Complete(c, i, st, rec) ==
    [c EXCEPT !.tasks[i].st = st, !.tasks[i].rec = rec,
              !.doneq = IF c.pc = "wait" THEN Append(@, i) ELSE @]

(* get_url / upsert_url with url None: the task works on the node's DAO. *)
TaskRunLocal(id, i) ==
    LET c == calls[id]
        n == c.node
        r == Record(UpsertValue(c), c.timestamp)
        g == DAO_get(db[n], c.key)
    IN  /\ c.pc \in {"wait", "done"}
        /\ i \in 1..Len(c.tasks)
        /\ c.tasks[i].st = "pending"
        /\ c.tasks[i].url = Local
        /\ IF IsUpsert(c)
           THEN /\ db' = [db EXCEPT ![n] = DAO_upsert(@, c.key, r)]
                /\ accepted' = [accepted EXCEPT ![n][c.key] = @ \cup {r.timestamp}]
                /\ lastUp' = [lastUp EXCEPT ![n] =
                        IF c.key \in DOMAIN @ THEN [@ EXCEPT ![c.key] = r]
                        ELSE @ @@ (c.key :> r)]
                /\ calls' = [calls EXCEPT ![id] = Complete(c, i, "ok", NoRecord)]
           ELSE /\ calls' = [calls EXCEPT ![id] =
                        IF g.found THEN Complete(c, i, "ok", g.value)
                        ELSE Complete(c, i, "keyerror", NoRecord)]
                /\ UNCHANGED <<db, accepted, lastUp, watcher>>
        /\ UNCHANGED <<clock, cluster_urls, lastGet, watcher>>

HopMethod_put(c) == IF UpsertValue(c) # None \/ c.method = "GET" THEN "PUT" ELSE "DELETE"

(* The method of the request a replica task of call c sends: get_url calls
   client.get; upsert_url calls client.put for a value and client.delete
   for None. *)
HopMethod(c) ==
    IF c.method = "GET" THEN "GET"
    ELSE IF UpsertValue(c) # None THEN "PUT" ELSE "DELETE"

(* get_url / upsert_url with a peer's url: EntityClient sends the request of
   the internal hop, x-replicated: yes and no replicas parameter. *)
TaskSend(id, i) ==
    LET c == calls[id]
        method == HopMethod(c)
    IN  /\ c.pc \in {"wait", "done"}
        /\ i \in 1..Len(c.tasks)
        /\ c.tasks[i].st = "pending"
        /\ c.tasks[i].url # Local
        /\ calls' = [calls EXCEPT ![id] = [c EXCEPT !.tasks[i].st = "sent"]]
                    @@ (Append(id, i) :>
                        NewCall(c.tasks[i].url, method, c.key, c.body,
                                HopTimestamp(c.timestamp),
                                parse_x_replicated(EntityClient_headers(TRUE)),
                                url_for(c.key, None, None).replicas, {}))
        /\ UNCHANGED <<db, clock, cluster_urls, accepted, lastUp, lastGet, watcher>>

(* get_url / upsert_url with a peer's url, the peer being unreachable:
   session.get / put / delete raises ClientConnectorError, a ClientError. *)
TaskRefused(id, i) ==
    LET c == calls[id]
    IN  /\ c.pc \in {"wait", "done"}
        /\ i \in 1..Len(c.tasks)
        /\ c.tasks[i].st = "pending"
        /\ c.tasks[i].url # Local
        /\ calls' = [calls EXCEPT ![id] = Complete(c, i, "clienterror", NoRecord)]
        /\ UNCHANGED <<db, clock, cluster_urls, accepted, lastUp, lastGet, watcher>>

(* get_url / upsert_url with a peer's url, the peer not answering within the
   session's total timeout: the request raises asyncio.TimeoutError, which
   is no ClientError. *)
TaskTimeout(id, i) ==
    LET c == calls[id]
    IN  /\ c.pc \in {"wait", "done"}
        /\ i \in 1..Len(c.tasks)
        /\ c.tasks[i].st = "sent"
        /\ calls' = [calls EXCEPT ![id] = Complete(c, i, "timeouterror", NoRecord)]
        /\ UNCHANGED <<db, clock, cluster_urls, accepted, lastUp, lastGet, watcher>>

(* The calls once task i of call id has read its response: the peer's
   handler execution is over and is forgotten. *)
Answered(id, i, c2) ==
    [j \in DOMAIN calls \ {Append(id, i)} |-> IF j = id THEN c2 ELSE calls[j]]

(* EntityClient.get / put / delete read the peer's response, while the
   coordinator still waits in its loop. *)
TaskReceive(id, i) ==
    LET c == calls[id]
        child == calls[Append(id, i)]
        resp == child.resp
    IN  /\ i \in 1..Len(c.tasks)
        /\ c.tasks[i].st = "sent"
        /\ child.pc = "done"
        /\ c.pc = "wait"
        /\ IF c.method = "GET" /\ resp.status = 404
           THEN /\ calls' = Answered(id, i,
                        IF resp.last_modified # NoTs
                        THEN Complete(c, i, "ok", Record(None, resp.last_modified))
                        ELSE Complete(c, i, "keyerror", NoRecord))
                /\ clock' = clock
           ELSE IF resp.status >= 400
           THEN /\ calls' = Answered(id, i, Complete(c, i, "clienterror", NoRecord))
                /\ clock' = clock
           ELSE IF c.method = "GET"
           THEN \E now \in (IF resp.last_modified = NoTs THEN clock..MaxClock ELSE {clock}) :
                /\ clock' = now
                /\ calls' = Answered(id, i, Complete(c, i, "ok",
                        Record(resp.body, effective_timestamp(resp.last_modified, now))))
           ELSE /\ calls' = Answered(id, i, Complete(c, i, "ok", NoRecord))
                /\ clock' = clock
        /\ UNCHANGED <<db, cluster_urls, accepted, lastUp, lastGet, watcher>>

(* EntityClient.get / put / delete read the peer's response after the
   handler has left its loop and answered: the task, which nobody cancelled,
   completes in the background, watched by the TasksWatcher alone. *)
TaskReceiveLate(id, i) ==
    LET c == calls[id]
        child == calls[Append(id, i)]
        resp == child.resp
    IN  /\ i \in 1..Len(c.tasks)
        /\ c.tasks[i].st = "sent"
        /\ child.pc = "done"
        /\ c.pc = "done"
        /\ IF c.method = "GET" /\ resp.status = 404
           THEN /\ calls' = Answered(id, i,
                        IF resp.last_modified # NoTs
                        THEN Complete(c, i, "ok", Record(None, resp.last_modified))
                        ELSE Complete(c, i, "keyerror", NoRecord))
                /\ clock' = clock
           ELSE IF resp.status >= 400
           THEN /\ calls' = Answered(id, i, Complete(c, i, "clienterror", NoRecord))
                /\ clock' = clock
           ELSE IF c.method = "GET"
           THEN \E now \in (IF resp.last_modified = NoTs THEN clock..MaxClock ELSE {clock}) :
                /\ clock' = now
                /\ calls' = Answered(id, i, Complete(c, i, "ok",
                        Record(resp.body, effective_timestamp(resp.last_modified, now))))
           ELSE /\ calls' = Answered(id, i, Complete(c, i, "ok", NoRecord))
                /\ clock' = clock
        /\ UNCHANGED <<db, cluster_urls, accepted, lastUp, lastGet, watcher>>

(* The handler resumes in its loop over as_completed and takes the tasks
   completed so far.  When the loop breaks, or ends with no task left, the
   handler answers: 504 with fewer than ack replies (successes), else the
   result; get then cancels its tasks.  An exception that left the loop is
   caught by nobody and answered 500. *)
HandlerResume(id) ==
    LET c == calls[id]
        g == GetLoop(c.replies, c.doneq, c.tasks, c.ack)
        u == UpsertLoop(c.success, c.doneq, c.tasks, c.ack)
        q == IF IsUpsert(c) THEN u.q ELSE g.q
        broke == IF IsUpsert(c) THEN u.broke ELSE g.broke
        raised == IF IsUpsert(c) THEN u.raised ELSE g.raised
        consumed == c.consumed + Len(c.doneq) - Len(q)
        c2 == [c EXCEPT !.replies = IF IsUpsert(c) THEN @ ELSE g.replies,
                        !.success = IF IsUpsert(c) THEN u.success ELSE @,
                        !.consumed = consumed, !.doneq = <<>>]
    IN  /\ c.pc = "wait"
        /\ c.doneq # <<>>
        /\ calls' = [calls EXCEPT ![id] =
              IF raised
              THEN [c2 EXCEPT !.pc = "done", !.resp = ErrorResponse("TimeoutError")]
              ELSE IF ~broke /\ consumed < Len(c.tasks)
              THEN c2
              ELSE IF IsUpsert(c)
              THEN IF u.success < c.ack
                   THEN [c2 EXCEPT !.pc = "done",
                                   !.resp = ErrorResponse("NotEnoughReplicasError")]
                   ELSE [c2 EXCEPT !.pc = "done", !.tasks = upsert_return(c.tasks),
                                   !.resp = EntityView_upsert_response(c.method)]
              ELSE IF Len(g.replies) < c.ack
                   THEN [c2 EXCEPT !.pc = "done",
                                   !.resp = ErrorResponse("NotEnoughReplicasError")]
                   ELSE [c2 EXCEPT !.pc = "done", !.tasks = CancelAll(c.tasks),
                                   !.result = GetResult(g.replies),
                                   !.resp = EntityView_get_response(GetResult(g.replies))]]
        /\ db' = IF IsUpsert(c) /\ ~raised /\ (broke \/ consumed >= Len(c.tasks))
                    /\ u.success < c.ack
                 THEN [db EXCEPT ![c.node] = upsert_raise(@, c.key)]
                 ELSE db
        /\ UNCHANGED <<clock, cluster_urls, accepted, lastUp, lastGet, watcher>>

(* TasksWatcher.run, `if self.tasks: ... await asyncio.wait(self.tasks)`:
   the runner starts to wait for the tasks the set holds now. *)
TasksWatcher_run_wait(n) ==
    LET w == watcher[n]
    IN  /\ w.runner = "idle"
        /\ w.tasks # {}
        /\ watcher' = [watcher EXCEPT ![n] = [w EXCEPT !.runner = "waiting",
                                                       !.waiting = w.tasks]]
        /\ UNCHANGED <<db, calls, clock, cluster_urls, accepted, lastUp, lastGet>>

TasksWatcher_run_wake_keep(n) ==
    LET w == watcher[n]
    IN  /\ w.runner = "waiting"
        /\ \A t \in w.waiting : TaskDone(t)
        /\ watcher' = [watcher EXCEPT ![n] = [w EXCEPT !.runner = "idle", !.waiting = {}]]
        /\ UNCHANGED <<db, calls, clock, cluster_urls, accepted, lastUp, lastGet>>

(* TasksWatcher.run, `done, _ = await asyncio.wait(...)` returns when all the
   tasks it waits for are done; `self.tasks -= done`.  Nothing is logged. *)
TasksWatcher_run_wake(n) ==
    LET w == watcher[n]
    IN  /\ w.runner = "waiting"
        /\ \A t \in w.waiting : TaskDone(t)
        /\ watcher' = [watcher EXCEPT ![n] = [w EXCEPT !.runner = "idle",
                                                       !.waiting = {},
                                                       !.tasks = @ \ w.waiting]]
        /\ UNCHANGED <<db, calls, clock, cluster_urls, accepted, lastUp, lastGet>>

(* replicated_storage_context's teardown, when the server has ended its
   handlers: ReplicatedStorage.aclose -> TasksWatcher.aclose up to
   `await self.runner`: the runner is cancelled. *)
Aclose_start(n) ==
    LET w == watcher[n]
    IN  /\ w.phase = "up"
        /\ \A id \in DOMAIN calls : calls[id].node = n => calls[id].pc = "done"
        /\ watcher' = [watcher EXCEPT ![n] = [w EXCEPT !.phase = "stopping",
                                                       !.runner = "cancelled",
                                                       !.waiting = {}]]
        /\ UNCHANGED <<db, calls, clock, cluster_urls, accepted, lastUp, lastGet>>

Aclose_cancel_none(tasks, watched, id) == tasks

(* `for task in self.tasks: task.cancel()` on the tasks of call id *)
Aclose_cancel_tasks(tasks, watched, id) ==
    [i \in 1..Len(tasks) |->
        IF Append(id, i) \in watched /\ ~Completed(tasks[i])
        THEN [tasks[i] EXCEPT !.st = "cancelled"] ELSE tasks[i]]

(* TasksWatcher.aclose once the runner has ended: every task of the set is
   cancelled and gather awaits them. *)
Aclose_cancel(n) ==
    LET w == watcher[n]
    IN  /\ w.phase = "stopping"
        /\ calls' = [id \in DOMAIN calls |->
                        [calls[id] EXCEPT !.tasks = Aclose_cancel_tasks(@, w.tasks, id)]]
        /\ watcher' = [watcher EXCEPT ![n] = [w EXCEPT !.phase = "gathering"]]
        /\ UNCHANGED <<db, clock, cluster_urls, accepted, lastUp, lastGet>>

(* TasksWatcher.aclose once gather has all results: the results that are
   Exceptions are logged; then ReplicatedStorage.aclose closes the session
   and the DAO. *)
Aclose_gather(n) ==
    LET w == watcher[n]
    IN  /\ w.phase = "gathering"
        /\ \A t \in w.tasks : TaskDone(t)
        /\ watcher' = [watcher EXCEPT ![n] =
                          [w EXCEPT !.phase = "closed",
                                    !.logged = @ \cup {t \in w.tasks : TaskRaised(t)}]]
        /\ UNCHANGED <<db, calls, clock, cluster_urls, accepted, lastUp, lastGet>>

(* The steps of the servers *)
Start == \E id \in DOMAIN calls : HandleStart(id)
Resume == \E id \in DOMAIN calls : HandlerResume(id)
RunLocal == \E id \in DOMAIN calls : \E i \in 1..Len(calls[id].tasks) : TaskRunLocal(id, i)
Send == \E id \in DOMAIN calls : \E i \in 1..Len(calls[id].tasks) : TaskSend(id, i)
Receive == \E id \in DOMAIN calls : \E i \in 1..Len(calls[id].tasks) : TaskReceive(id, i)
Refuse == \E id \in DOMAIN calls : \E i \in 1..Len(calls[id].tasks) : TaskRefused(id, i)
Timeout == \E id \in DOMAIN calls : \E i \in 1..Len(calls[id].tasks) : TaskTimeout(id, i)
ReceiveLate ==
    \E id \in DOMAIN calls : \E i \in 1..Len(calls[id].tasks) : TaskReceiveLate(id, i)

----------------------------------------------------------------------------
(* Specifications *)

EmptyMap == [k \in {} |-> NoRecord]

InitWith(urls) ==
    /\ db = [n \in Nodes |-> EmptyMap]
    /\ calls = [id \in {} |-> 0]
    /\ clock = 1
    /\ cluster_urls \in urls
    /\ accepted = [n \in Nodes |-> [k \in StoreKeys |-> {}]]
    /\ lastUp = [n \in Nodes |-> EmptyMap]
    /\ lastGet = [node |-> None, key |-> None, found |-> FALSE, value |-> NoRecord]
    /\ watcher = [n \in Nodes |-> TasksWatcher_init]

Bodies(method) == IF method = "PUT" THEN Values ELSE {None}

AllAnswered == \A id \in ClientIds : calls[id].pc = "done"

(* Spec: clients send up to MaxClientReqs requests with any quorum
   parameters, valid or not, to a node of a cluster or to a node started
   with no membership. *)
Init == InitWith({<<>>, Membership})

ReplicasMenu == {<<>>, <<1, 1>>, <<2, 3>>, <<3, 3>>, <<2, 1>>, <<0, 1>>, <<1, 4>>}

Client ==
    /\ Cardinality(ClientIds) < MaxClientReqs
    /\ \E node \in Nodes, method \in {"GET", "PUT", "DELETE"}, key \in Keys,
          x_last_modified \in 0..MaxClock, replicas \in ReplicasMenu :
          \E body \in Bodies(method) :
            ClientRequest(node, method, key, body, x_last_modified, replicas)

Next == Client \/ Start \/ Resume \/ RunLocal \/ Send \/ Receive

Spec == Init /\ [][Next]_vars

(* SpecLocal: clients of a cluster send up to MaxLocalReqs requests without
   a replicas parameter (ack = from = 1), each after the answer to the one
   before, with or without an x-last-modified of their own. *)
InitCluster == InitWith({Membership})

ClientLocal ==
    /\ Cardinality(ClientIds) < MaxLocalReqs
    /\ AllAnswered
    /\ \E node \in Nodes, method \in {"GET", "PUT", "DELETE"}, key \in Keys :
          \E x_last_modified \in (IF method = "GET" THEN {NoTs} ELSE 0..MaxClock),
             body \in Bodies(method) :
            ClientRequest(node, method, key, body, x_last_modified, <<>>)

NextLocal == ClientLocal \/ Start \/ Resume \/ RunLocal \/ Send \/ Receive

SpecLocal == InitCluster /\ [][NextLocal]_vars

(* SpecLWW: clients send up to MaxLWWReqs requests to the full replica set
   with the full quorum (from = N, ack = N), each after the answer to the one
   before; the coordinator stamps the writes. *)
FullQuorum == <<Len(Membership), Len(Membership)>>

ClientLWW ==
    /\ Cardinality(ClientIds) < MaxLWWReqs
    /\ AllAnswered
    /\ \E node \in Nodes, method \in {"GET", "PUT", "DELETE"}, key \in Keys :
          \E body \in Bodies(method) :
            ClientRequest(node, method, key, body, NoTs, FullQuorum)

NextLWW == ClientLWW \/ Start \/ Resume \/ RunLocal \/ Send \/ Receive

SpecLWW == InitCluster /\ [][NextLWW]_vars

(* SpecS3: scenario S3.  A client sends one PUT with replicas=2/3 to any
   node of the cluster, all peers up; once it is answered 201 a client sends a
   GET with replicas=2/3 to any node, at any later moment. *)
S3Replicas == <<2, Len(Membership)>>

S3Put ==
    /\ ClientIds = {}
    /\ \E node \in Nodes, key \in Keys, body \in Values, x_last_modified \in 0..MaxClock :
          ClientRequest(node, "PUT", key, body, x_last_modified, S3Replicas)

S3Get ==
    /\ ClientIds = {<<1>>}
    /\ calls[<<1>>].pc = "done"
    /\ calls[<<1>>].resp.status = 201
    /\ \E node \in Nodes :
          ClientRequest(node, "GET", calls[<<1>>].key, None, NoTs, S3Replicas)

NextS3 == S3Put \/ S3Get \/ Start \/ Resume \/ RunLocal \/ Send \/ Receive

SpecS3 == InitCluster /\ [][NextS3]_vars

(* SpecS5: scenario S5.  A client sends to the coordinator a PUT stamped t1
   and, at any moment before the PUT is answered, a DELETE stamped t2 > t1,
   so that the replica writes of the two interleave in any order;
   when both are answered it sends a GET with replicas=2/3. *)
S5Coordinator == "A"

S5Put ==
    /\ ClientIds = {}
    /\ \E key \in Keys, body \in Values, t1 \in 1..MaxClock - 1 :
          ClientRequest(S5Coordinator, "PUT", key, body, t1, S3Replicas)

S5Delete ==
    /\ ClientIds = {<<1>>}
    /\ calls[<<1>>].pc # "done"
    /\ \E t2 \in calls[<<1>>].x_last_modified + 1..MaxClock :
          ClientRequest(S5Coordinator, "DELETE", calls[<<1>>].key, None, t2, S3Replicas)

S5Get ==
    /\ ClientIds = {<<1>>, <<2>>}
    /\ \A id \in ClientIds : calls[id].pc = "done" /\ calls[id].resp.status \in {201, 202}
    /\ ClientRequest(S5Coordinator, "GET", calls[<<1>>].key, None, NoTs, S3Replicas)

NextS5 == S5Put \/ S5Delete \/ S5Get \/ Start \/ Resume \/ RunLocal \/ Send \/ Receive

SpecS5 == InitCluster /\ [][NextS5]_vars

(* SpecRefuse: a client sends a PUT or a DELETE with replicas=2/3, stamped
   with its clock, to a node and, once it is answered, a GET with replicas=2/3 to a node; any peer may
   be unreachable for any replica task. *)
RefuseUpsert ==
    /\ ClientIds = {}
    /\ \E node \in Nodes, method \in {"PUT", "DELETE"}, key \in Keys :
          \E body \in Bodies(method) :
             ClientRequest(node, method, key, body, clock, S3Replicas)

RefuseGet ==
    /\ ClientIds = {<<1>>}
    /\ calls[<<1>>].pc = "done"
    /\ \E node \in Nodes :
          ClientRequest(node, "GET", calls[<<1>>].key, None, NoTs, S3Replicas)

NextRefuse ==
    RefuseUpsert \/ RefuseGet \/ Start \/ Resume \/ RunLocal \/ Send \/ Receive \/ Refuse

SpecRefuse == InitCluster /\ [][NextRefuse]_vars

(* SpecTimeout: a client sends one GET, PUT or DELETE with replicas=2/3 to
   a node; a peer may be unreachable or may fail to answer a replica task in
   time. *)
TimeoutRequest ==
    /\ ClientIds = {}
    /\ \E node \in Nodes, method \in {"GET", "PUT", "DELETE"}, key \in Keys :
          \E body \in Bodies(method) :
             ClientRequest(node, method, key, body, NoTs, S3Replicas)

NextTimeout ==
    TimeoutRequest \/ Start \/ Resume \/ RunLocal \/ Send \/ Receive \/ Refuse \/ Timeout

SpecTimeout == InitCluster /\ [][NextTimeout]_vars

(* SpecTie: a client sends a DELETE with replicas=2/2 stamped t to a node,
   then a PUT with replicas=1/1 and the same stamp t to a node, then a GET
   with replicas=2/2 to a node, each after the answer to the one before. *)
TieReplicas == <<2, 2>>

TieDelete ==
    /\ ClientIds = {}
    /\ \E node \in Nodes, key \in Keys, t \in 1..MaxClock :
          ClientRequest(node, "DELETE", key, None, t, TieReplicas)

TiePut ==
    /\ ClientIds = {<<1>>}
    /\ AllAnswered
    /\ \E node \in Nodes, body \in Values :
          ClientRequest(node, "PUT", calls[<<1>>].key, body,
                        calls[<<1>>].x_last_modified, <<1, 1>>)

TieGet ==
    /\ ClientIds = {<<1>>, <<2>>}
    /\ AllAnswered
    /\ \E node \in Nodes :
          ClientRequest(node, "GET", calls[<<1>>].key, None, NoTs, TieReplicas)

NextTie == TieDelete \/ TiePut \/ TieGet \/ Start \/ Resume \/ RunLocal \/ Send \/ Receive

SpecTie == InitCluster /\ [][NextTie]_vars

(* SpecWatcher: a client sends one GET, PUT or DELETE with replicas=2/3 to
   node A; peers may be unreachable or silent; the TasksWatcher of A runs its
   loop and
   A is shut down at any moment at which none of its handlers runs. *)
WatchedNode == "A"

WatcherRequest ==
    /\ ClientIds = {}
    /\ \E method \in {"GET", "PUT", "DELETE"}, key \in Keys :
          \E body \in Bodies(method) :
             ClientRequest(WatchedNode, method, key, body, clock, S3Replicas)

RunWait == TasksWatcher_run_wait(WatchedNode)
RunWake == TasksWatcher_run_wake(WatchedNode)
AcloseStart == ClientIds # {} /\ Aclose_start(WatchedNode)
AcloseCancel == Aclose_cancel(WatchedNode)
AcloseGather == Aclose_gather(WatchedNode)

NextWatcher ==
    \/ WatcherRequest \/ Start \/ Resume \/ RunLocal \/ Send \/ Receive \/ Refuse \/ Timeout
    \/ RunWait \/ RunWake \/ AcloseStart \/ AcloseCancel \/ AcloseGather

SpecWatcher == InitCluster /\ [][NextWatcher]_vars

(* SpecShutdown: SpecWatcher with the event loop running the steps of aclose
   whenever they can run. *)
SpecShutdown ==
    /\ InitCluster
    /\ [][NextWatcher]_vars
    /\ WF_vars(AcloseCancel)
    /\ WF_vars(AcloseGather)

(* SpecIdem: a client may first PUT a key, stamped with the clock; then it
   sends two DELETEs of the key, with a later stamp, to one node and, after
   them, a GET, all with replicas=2/3; it sends each request when the one
   before is answered and the replica tasks and peer handlers it caused have
   ended. *)
ClientCalls(method) == {id \in ClientIds : calls[id].method = method}

Settled ==
    \A id \in DOMAIN calls :
       /\ calls[id].pc = "done"
       /\ \A i \in 1..Len(calls[id].tasks) : calls[id].tasks[i].st # "pending"

IdemPut ==
    /\ ClientIds = {}
    /\ \E node \in Nodes, key \in Keys, body \in Values :
          ClientRequest(node, "PUT", key, body, clock, S3Replicas)

IdemDelete ==
    /\ Settled
    /\ Cardinality(ClientCalls("DELETE")) < 2
    /\ ClientCalls("GET") = {}
    /\ \E node \in Nodes, key \in Keys :
          /\ \A id \in ClientCalls("DELETE") : calls[id].node = node
          /\ ClientRequest(node, "DELETE", key, None, MaxClock, S3Replicas)

IdemGet ==
    /\ Settled
    /\ Cardinality(ClientCalls("DELETE")) = 2
    /\ ClientCalls("GET") = {}
    /\ \E node \in Nodes, key \in Keys :
          ClientRequest(node, "GET", key, None, NoTs, S3Replicas)

NextIdem == IdemPut \/ IdemDelete \/ IdemGet \/ Start \/ Resume \/ RunLocal \/ Send \/ Receive

SpecIdem == InitCluster /\ [][NextIdem]_vars

(* SpecMiddleware: a client sends a request to a path without a route and
   then a request to /v0/entity whose id may be absent or empty, whose
   replicas may be invalid and whose x-last-modified may be no datetime. *)
MiddlewareReplicas == {<<>>, <<2, 1>>, <<0, 1>>, <<2, 3>>}

MiddlewareOther ==
    /\ ClientIds = {}
    /\ \E node \in Nodes, method \in {"GET", "PUT", "DELETE"} : RouteNotFound(node, method)

MiddlewareEntity ==
    /\ ClientIds = {<<1>>}
    /\ \E node \in Nodes, method \in {"GET", "PUT", "DELETE"}, key \in Keys \cup {None, ""},
          x_last_modified \in {NoTs, clock, BadHeader}, replicas \in MiddlewareReplicas :
          \E body \in Bodies(method) :
            ClientRequest(node, method, key, body, x_last_modified, replicas)

NextMiddleware ==
    MiddlewareOther \/ MiddlewareEntity \/ Start \/ Resume \/ RunLocal \/ Send \/ Receive

SpecMiddleware == InitCluster /\ [][NextMiddleware]_vars

(* SpecKeys: clients send to one node a request for key k1 and a request
   for key k2, PUT, DELETE or GET with replicas=2/2, at any moments, so that
   the two run concurrently in any interleaving; when both and what they
   caused have ended, a client sends a GET of k2. *)
KeysNode == "B"

KeysBody(method, key) ==
    IF method # "PUT" THEN None ELSE IF key = "k1" THEN "v1" ELSE "v2"

KeysRequest ==
    /\ Cardinality(ClientIds) < Cardinality(StoreKeys)
    /\ \E key \in StoreKeys, method \in {"GET", "PUT", "DELETE"} :
          /\ \A id \in ClientIds : calls[id].key # key
          /\ \E x_last_modified \in (IF method = "GET" THEN {NoTs} ELSE 1..MaxClock) :
                ClientRequest(KeysNode, method, key, KeysBody(method, key),
                              x_last_modified, TieReplicas)

KeysGet ==
    /\ Cardinality(ClientIds) = Cardinality(StoreKeys)
    /\ Settled
    /\ ClientRequest(KeysNode, "GET", "k2", None, NoTs, TieReplicas)

NextKeys == KeysRequest \/ KeysGet \/ Start \/ Resume \/ RunLocal \/ Send \/ Receive

SpecKeys == InitCluster /\ [][NextKeys]_vars

(* SpecWindow: a client sends a PUT with replicas=2/2 and the latest stamp
   to node A, then a PUT with replicas=1/1 and an earlier stamp to a node,
   then a GET with replicas=2/3 to a node, each when the one before and what
   it caused have ended. *)
WindowPutLate ==
    /\ ClientIds = {}
    /\ \E key \in Keys, body \in Values :
          ClientRequest("A", "PUT", key, body, MaxClock, TieReplicas)

WindowPutEarly ==
    /\ ClientIds = {<<1>>}
    /\ Settled
    /\ \E node \in Nodes, body \in Values, t \in 1..MaxClock - 1 :
          ClientRequest(node, "PUT", calls[<<1>>].key, body, t, <<1, 1>>)

WindowGet ==
    /\ ClientIds = {<<1>>, <<2>>}
    /\ Settled
    /\ \E node \in Nodes :
          ClientRequest(node, "GET", calls[<<1>>].key, None, NoTs, S3Replicas)

NextWindow ==
    WindowPutLate \/ WindowPutEarly \/ WindowGet \/ Start \/ Resume \/ RunLocal \/ Send \/ Receive

SpecWindow == InitCluster /\ [][NextWindow]_vars

(* SpecFail: a client sends one GET, PUT or DELETE with the full quorum
   (replicas=3/3) to a node; any peer may be unreachable for any replica
   task. *)
FailRequest ==
    /\ ClientIds = {}
    /\ \E node \in Nodes, method \in {"GET", "PUT", "DELETE"}, key \in Keys :
          \E body \in Bodies(method) :
             ClientRequest(node, method, key, body, NoTs, FullQuorum)

NextFail == FailRequest \/ Start \/ Resume \/ RunLocal \/ Send \/ Receive \/ Refuse

SpecFail == InitCluster /\ [][NextFail]_vars

(* SpecDrain: a client sends one GET, PUT or DELETE with replicas=2/3 to a
   node; the replica tasks and the handlers run to their ends, the tasks
   left behind by an answered handler included, and the TasksWatcher of node
   B, which the handlers of B hand their tasks to one after another, runs its
   loop.  The event loop runs every step that can run. *)
DrainNode == "B"

DrainRequest ==
    /\ ClientIds = {}
    /\ \E node \in Nodes, method \in {"GET", "PUT", "DELETE"}, key \in Keys :
          \E body \in Bodies(method) :
             ClientRequest(node, method, key, body, clock, S3Replicas)

DrainWait == TasksWatcher_run_wait(DrainNode)
DrainWake == TasksWatcher_run_wake(DrainNode)

NextDrain ==
    \/ DrainRequest \/ Start \/ Resume \/ RunLocal \/ Send \/ Receive \/ ReceiveLate
    \/ DrainWait \/ DrainWake

SpecDrain ==
    /\ InitCluster
    /\ [][NextDrain]_vars
    /\ WF_vars(Start) /\ WF_vars(Resume) /\ WF_vars(RunLocal) /\ WF_vars(Send)
    /\ WF_vars(Receive) /\ WF_vars(ReceiveLate)
    /\ WF_vars(DrainWait) /\ WF_vars(DrainWake)

(* SpecDAO: the local stores of two nodes alone, under any sequence of
   upserts of records (values and tombstones) and gets over two keys. *)
DaoKeys == {"k1", "k2"}
DaoNodes == {"A", "B"}

NoGet == [node |-> None, key |-> None, found |-> FALSE, value |-> NoRecord]

(* await dao.upsert(key, record) *)
DaoUpsert(n, k, r) ==
    /\ db' = [db EXCEPT ![n] = DAO_upsert(@, k, r)]
    /\ lastUp' = [lastUp EXCEPT ![n] =
            IF k \in DOMAIN @ THEN [@ EXCEPT ![k] = r] ELSE @ @@ (k :> r)]
    /\ lastGet' = NoGet
    /\ UNCHANGED <<calls, clock, cluster_urls, accepted, watcher>>

(* await dao.get(key) *)
DaoGet(n, k) ==
    /\ lastGet' = [node |-> n, key |-> k, found |-> DAO_get(db[n], k).found,
                   value |-> DAO_get(db[n], k).value]
    /\ UNCHANGED <<db, calls, clock, cluster_urls, accepted, lastUp, watcher>>

Upserts ==
    \E n \in DaoNodes, k \in DaoKeys, v \in Values \cup {None}, t \in 1..MaxClock :
        DaoUpsert(n, k, Record(v, t))

Gets == \E n \in DaoNodes, k \in DaoKeys : DaoGet(n, k)

NextDAO == Upserts \/ Gets

SpecDAO == InitCluster /\ [][NextDAO]_vars

----------------------------------------------------------------------------
(* Properties *)

Max(a, b) == IF a > b THEN a ELSE b

(* The nodes whose local store holds a record of key stamped T or later *)
Holders(key, T) ==
    {n \in Nodes : key \in DOMAIN db[n] /\ db[n][key].timestamp >= T}

(* The client upsert id is answered with success in this step. *)
UpsertSucceeds(id) ==
    /\ IsUpsert(calls[id])
    /\ calls[id].pc # "done"
    /\ calls'[id].pc = "done"
    /\ calls'[id].resp.status \in {201, 202}

(* C1 - Ack monotonicity: when a client upsert of key K with quorum ack = a
   is answered with success having used timestamp T, at least a distinct
   nodes hold a record of K stamped T or later. *)
C1_AckMonotonicity ==
    [][\A id \in ClientIds :
          UpsertSucceeds(id) =>
              Cardinality(Holders(calls[id].key, calls[id].timestamp)') >= calls[id].ack]_vars

(* C2 - Replicated hop isolation: a handler of a request carrying
   x-replicated: yes has the target list [Local] and sends no request to a
   peer. *)
C2_HopIsolation ==
    \A id \in DOMAIN calls :
        (calls[id].x_replicated /\ calls[id].tasks # <<>>) =>
            /\ Len(calls[id].tasks) = 1
            /\ calls[id].tasks[1].url = Local

(* C9 - Single-node round trip (S1): on a node started with no membership a
   request without replicas is accepted: PUT answers 201, DELETE 202, and GET
   answers 404 or 200 with a stored value and its x-last-modified. *)
C9_SingleNodeRoundTrip ==
    \A id \in ClientIds :
        LET c == calls[id]
        IN  (cluster_urls = <<>> /\ c.replicas = <<>> /\ c.pc = "done") =>
                /\ c.method = "PUT" => c.resp.status = 201
                /\ c.method = "DELETE" => c.resp.status = 202
                /\ c.method = "GET" =>
                      \/ c.resp.status = 404
                      \/ /\ c.resp.status = 200
                         /\ c.resp.body \in Values
                         /\ c.resp.last_modified # NoTs

(* The quorum parameters break 1 <= from_ <= max(N, 1) or 1 <= ack <= from_. *)
BadParameters(replicas) ==
    /\ replicas # <<>>
    /\ \/ replicas[2] < 1 \/ replicas[2] > Max(Len(cluster_urls), 1)
       \/ replicas[1] < 1 \/ replicas[1] > replicas[2]

(* C10 - Parameter discipline: a client request with bad quorum parameters
   is answered 400 and launches no replica task. *)
C10_ParameterDiscipline ==
    \A id \in ClientIds :
        (BadParameters(calls[id].replicas) /\ calls[id].pc # "start") =>
            /\ calls[id].pc = "done"
            /\ calls[id].resp.status = 400
            /\ calls[id].tasks = <<>>

(* The greatest timestamp among the records rs *)
MaxTimestamp(rs) == CHOOSE t \in {r.timestamp : r \in rs} : \A r \in rs : r.timestamp <= t

(* The answer of a GET shows record r: 200 with its value and timestamp, or
   404 when r is a tombstone. *)
Shows(resp, r) ==
    IF r.value = None THEN resp.status = 404
    ELSE /\ resp.status = 200
         /\ resp.body = r.value
         /\ resp.last_modified = r.timestamp

(* from = N and ack >= ceil(N/2) + 1 *)
IsQuorum(c) ==
    /\ c.from_ = Len(cluster_urls)
    /\ c.ack >= ((Len(cluster_urls) + 1) \div 2) + 1

(* C3 - Quorum LWW: with from = N and ack >= ceil(N/2)+1 a client GET
   answers with the record of the greatest timestamp among the upserts that
   were answered with success before the GET started, 404 if it is a
   tombstone. *)
C3_QuorumLWW ==
    \A id \in ClientIds :
        LET c == calls[id]
        IN  (c.method = "GET" /\ c.pc = "done" /\ IsQuorum(c) /\ c.acked # {}) =>
                \E r \in c.acked :
                    /\ r.timestamp = MaxTimestamp(c.acked)
                    /\ Shows(c.resp, r)

(* C6 - Per-node timestamp monotonicity: the record a node stores for a key
   is stamped no earlier than any write to that key the node has accepted. *)
C6_TimestampMonotonic ==
    \A n \in Nodes, k \in Keys :
        \A t \in accepted[n][k] :
            /\ k \in DOMAIN db[n]
            /\ db[n][k].timestamp >= t

(* C8 - Tombstone visibility over HTTP: when the record that wins a client
   GET is a tombstone stamped T, the answer is 404 with x-last-modified: T. *)
C8_TombstoneVisible ==
    \A id \in ClientIds :
        LET c == calls[id]
        IN  (c.method = "GET" /\ c.pc = "done" /\ c.result # PyNone /\ c.resp.status # 504) =>
                (c.result.value = None =>
                    /\ c.resp.status = 404
                    /\ c.resp.last_modified = c.result.timestamp)

(* C7 - Local store write-read: a get of key K returns exactly the record
   of the last upsert of K, value or tombstone, and fails with KeyError only
   when K was never upserted. *)
C7_WriteReadLocal ==
    lastGet # NoGet =>
        IF lastGet.key \in DOMAIN lastUp[lastGet.node]
        THEN /\ lastGet.found
             /\ lastGet.value = lastUp[lastGet.node][lastGet.key]
        ELSE ~lastGet.found

(* C7 witness: a get returned a tombstone while the other key holds a value. *)
C7_Witness ==
    /\ lastGet.found
    /\ lastGet.value.value = None
    /\ \E k \in DaoKeys \ {lastGet.key} :
          /\ k \in DOMAIN db[lastGet.node]
          /\ db[lastGet.node][k].value # None

(* C5 - Quorum read-after-write (S3): with N = from = 3, ack = 2 and all
   peers up, the PUT is answered 201 as soon as two replica tasks have
   succeeded, without waiting for the third, and a GET with ack=2, from=3
   sent after the 201 answers with the PUT's value and timestamp. *)
C5_QuorumReadAfterWrite ==
    /\ \A id \in ClientIds :
          LET p == calls[id]
          IN  p.method = "PUT" =>
                 /\ p.pc = "wait" => p.success < p.ack
                 /\ p.pc = "done" => (p.resp.status = 201 /\ p.success = p.ack)
    /\ \A id \in ClientIds :
          LET g == calls[id]
          IN  (g.method = "GET" /\ g.pc = "done") =>
                  g.resp = Response(200, calls[<<1>>].body, calls[<<1>>].timestamp)

(* C5 witness: the GET is answered while the PUT's third replica task has
   not even sent its request. *)
C5_Witness ==
    /\ {<<1>>, <<2>>} \subseteq DOMAIN calls
    /\ calls[<<2>>].method = "GET"
    /\ calls[<<2>>].pc = "done"
    /\ calls[<<2>>].resp.status = 200
    /\ \E i \in 1..Len(calls[<<1>>].tasks) : calls[<<1>>].tasks[i].st = "pending"

(* C4 - LWW under overlap (S5): after a PUT stamped t1 and a DELETE stamped
   t2 > t1 of one key, both sent to the full replica set and interleaved in
   any order, a GET with ack=2, from=3 answers 404 with x-last-modified = t2. *)
C4_LWWUnderOverlap ==
    \A id \in ClientIds :
       LET g == calls[id]
       IN  (g.method = "GET" /\ g.pc = "done") =>
              \E d \in ClientIds :
                 /\ calls[d].method = "DELETE"
                 /\ g.resp = Response(404, None, calls[d].timestamp)

(* The replica tasks of call c that ended without a failure: a record
   (Present) or a KeyError (Absent). *)
NonFailed(c) == {i \in 1..Len(c.tasks) : c.tasks[i].st \in {"ok", "keyerror"}}

AllCompleted(c) == \A i \in 1..Len(c.tasks) : Completed(c.tasks[i])

(* C11 - GET quorum accounting: a client get counts Present and Absent
   replies toward ack and no Failed reply; it is answered 504 exactly when
   all its replica tasks have completed and fewer than ack of them did not
   fail, and otherwise it answers from exactly ack counted replies. *)
C11_GetQuorumAccounting ==
    \A id \in ClientIds :
       LET c == calls[id]
       IN  (c.method = "GET" /\ c.pc = "done") =>
              /\ c.resp.status \in {200, 404, 504}
              /\ c.resp.status = 504 <=>
                    (AllCompleted(c) /\ Cardinality(NonFailed(c)) < c.ack)
              /\ c.resp.status # 504 =>
                    /\ Len(c.replies) = c.ack
                    /\ Cardinality(NonFailed(c)) >= c.ack

(* C11 witness: N = 3, ack = 2, from = 3 and two peers unreachable: 504. *)
C11_Witness ==
    \E id \in ClientIds :
       /\ calls[id].method = "GET"
       /\ calls[id].pc = "done"
       /\ calls[id].resp.status = 504
       /\ Cardinality({i \in 1..Len(calls[id].tasks) :
                          calls[id].tasks[i].st = "clienterror"}) = 2
       /\ Cardinality(NonFailed(calls[id])) = 1

(* The replica tasks of an upsert call c that completed successfully. *)
Succeeded(c) == {i \in 1..Len(c.tasks) : c.tasks[i].st = "ok"}

(* C12 - No partial success: a client upsert ends either in success, with at
   least ack of its replica tasks completed successfully, or in 504, and in
   no other outcome, whatever fails at its replicas. *)
C12_NoPartialSuccess ==
    \A id \in ClientIds :
       LET c == calls[id]
       IN  (IsUpsert(c) /\ c.pc = "done") =>
              \/ c.resp.status \in {201, 202} /\ Cardinality(Succeeded(c)) >= c.ack
              \/ c.resp.status = 504

(* C13 - Transport-error tolerance: no transport failure of a peer
   (unreachable, failing answer, timeout) surfaces to the client, and a get
   or upsert of which at least ack replica tasks ended without failure is
   answered with its result, in every completion order. *)
C13_TransportTolerance ==
    \A id \in ClientIds :
       LET c == calls[id]
       IN  c.pc = "done" =>
              /\ c.resp.status \in {200, 201, 202, 404, 504}
              /\ (AllCompleted(c) /\ Cardinality(NonFailed(c)) >= c.ack) =>
                     c.resp.status \in {200, 201, 202, 404}

(* The Present replies among the replies a get counted. *)
PresentReplies(replies) ==
    {replies[i] : i \in {j \in 1..Len(replies) : replies[j] # PyNone}}

(* C14 - GET merge rule: a client get that counted ack replies answers 404
   when every counted reply is Absent; otherwise it answers from the Present
   reply with the greatest timestamp, and when a value and a tombstone tie
   on that timestamp it answers the value, in whatever order they arrived. *)
C14_GetMergeRule ==
    \A id \in ClientIds :
       LET c == calls[id]
           present == PresentReplies(c.replies)
           newest == {r \in present : \A o \in present : o.timestamp <= r.timestamp}
           values == {r \in newest : r.value # None}
       IN  (c.method = "GET" /\ c.pc = "done" /\ c.resp.status # 504) =>
              IF values # {}
              THEN \E r \in values : c.resp = Response(200, r.value, r.timestamp)
              ELSE c.resp.status = 404

(* C15 - Early completion: a client get or upsert does not stay in its loop
   once the ack condition is reached, and when it has answered with its
   result none of its replica tasks is still pending: each has completed
   or is cancelled. *)
C15_EarlyCompletion ==
    \A id \in ClientIds :
       LET c == calls[id]
       IN  /\ c.pc = "wait" =>
                 IF IsUpsert(c) THEN c.success < c.ack ELSE Len(c.replies) < c.ack
           /\ (c.pc = "done" /\ c.resp.status \in {200, 201, 202, 404}) =>
                 \A i \in 1..Len(c.tasks) : c.tasks[i].st \notin {"pending", "sent"}

(* The replica tasks of the calls of node n *)
TasksOf(n) ==
    UNION {{Append(id, i) : i \in 1..Len(calls[id].tasks)} :
              id \in {j \in DOMAIN calls : calls[j].node = n}}

(* The tasks of client call id that ended with an error (an exception other
   than KeyError), and how many such errors the call's own loop has seen. *)
ErrorTasks(id) ==
    {Append(id, i) : i \in {j \in 1..Len(calls[id].tasks) :
                               calls[id].tasks[j].st \in {"clienterror", "timeouterror"}}}

SeenErrors(id) ==
    calls[id].consumed - (IF IsUpsert(calls[id]) THEN calls[id].success
                          ELSE Len(calls[id].replies))

(* C16 - No unobserved failures: of the replica tasks of an answered client
   call that ended with an error, those the call's loop did not take are
   abandoned;
   each abandoned one is still in the watcher's set or has been logged by the
   watcher, so the errors neither watched nor logged are no more than the
   loop itself has seen. *)
C16_NoUnobservedFailures ==
    \A id \in ClientIds :
       LET w == watcher[calls[id].node]
       IN  calls[id].pc = "done" =>
              Cardinality(ErrorTasks(id) \ (w.tasks \cup w.logged)) <= SeenErrors(id)

(* C17 - Shutdown: aclose stops the watcher's loop, then cancels every task
   of the watcher's set and awaits them, so that when the session and the
   store are closed no replica task of the node is pending; and aclose
   terminates. *)
C17_Shutdown ==
    /\ [](\A n \in Nodes :
            LET w == watcher[n]
            IN  /\ w.phase # "up" => w.runner = "cancelled"
                /\ w.phase = "gathering" => \A t \in w.tasks : TaskDone(t)
                /\ w.phase = "closed" => \A t \in TasksOf(n) : TaskDone(t))
    /\ \A n \in Nodes : (watcher[n].phase = "stopping") ~> (watcher[n].phase = "closed")

(* C17 witness: the node is closed and aclose has cancelled a replica task
   that was still pending. *)
C17_Witness ==
    /\ watcher[WatchedNode].phase = "closed"
    /\ \E t \in watcher[WatchedNode].tasks : TaskState(t) = "cancelled"
    /\ \A id \in ClientIds : IsUpsert(calls[id])

(* C18 - Idempotent delete: two consecutive client DELETEs of a key, present
   or not, are both answered 202, and a GET of the key after them is
   answered 404. *)
C18_IdempotentDelete ==
    \A id \in ClientIds :
       LET c == calls[id]
       IN  c.pc = "done" =>
              /\ c.method = "DELETE" => c.resp.status = 202
              /\ c.method = "GET" => c.resp.status = 404

(* The member a replica task of call c stands for: Local is the node itself. *)
TaskMember(c, i) ==
    IF c.tasks[i].url = Local THEN SelfUrl(c.node, cluster_urls) ELSE c.tasks[i].url

(* C19 - Placement: with a non-empty membership the replica list of a get or
   upsert has min(from_, |urls|) entries, the members with the highest
   SHA1(key || url) scores in descending order of score, the node itself
   standing as Local; every node computes the same order. *)
C19_Placement ==
    \A id \in DOMAIN calls :
       LET c == calls[id]
       IN  (cluster_urls # <<>> /\ c.pc # "start" /\ c.tasks # <<>>) =>
              /\ Len(c.tasks) = Min(c.from_, Len(cluster_urls))
              /\ \A i \in 1..Len(c.tasks) :
                    Cardinality({j \in 1..Len(cluster_urls) :
                                    Sha1Digest(c.key, cluster_urls[j]) >
                                    Sha1Digest(c.key, TaskMember(c, i))}) = i - 1

(* C20 - Single timestamp per upsert: a client upsert uses one timestamp,
   the caller's x-last-modified when supplied and else one reading of the
   clock; every request of the internal hops it causes carries it, every
   handler of them uses it, and every record the request writes stores it. *)
C20_SingleTimestamp ==
    \A id \in ClientIds :
       LET c == calls[id]
       IN  (IsUpsert(c) /\ c.pc # "start" /\ c.tasks # <<>>) =>
              /\ c.timestamp # NoTs
              /\ c.x_last_modified # NoTs => c.timestamp = c.x_last_modified
              /\ \A d \in DOMAIN calls :
                    (Len(d) > 1 /\ d[1] = id[1]) =>
                       /\ calls[d].x_last_modified = c.timestamp
                       /\ calls[d].pc # "start" => calls[d].timestamp = c.timestamp
              /\ \A n \in Nodes : accepted[n][c.key] \subseteq {c.timestamp}

(* C20 witness: an upsert stamped by the coordinator's clock has written two
   nodes and a peer has passed it on to a third handler. *)
C20_Witness ==
    \E id \in ClientIds :
       /\ IsUpsert(calls[id])
       /\ calls[id].x_last_modified = NoTs
       /\ Cardinality({n \in Nodes : accepted[n][calls[id].key] # {}}) = 2
       /\ \E d \in DOMAIN calls : Len(d) = 3 /\ d[1] = id[1] /\ calls[d].pc = "done"

(* C21 - Internal hop message shape: every request a replica task sends to
   a peer carries x-replicated: yes and no replicas parameter, whatever the
   quorum parameters of the request it serves, and no request of a client
   carries x-replicated. *)
C21_HopMessageShape ==
    \A id \in DOMAIN calls :
       IF Len(id) > 1
       THEN calls[id].x_replicated /\ calls[id].replicas = <<>>
       ELSE ~calls[id].x_replicated

(* C21 witness: a client request with a replicas parameter has caused a hop,
   and the peer's handler of the hop has sent a hop of its own. *)
C21_Witness ==
    \E id \in DOMAIN calls :
       /\ Len(id) = 3
       /\ calls[id].x_replicated
       /\ calls[<<id[1]>>].replicas # <<>>
       /\ calls[<<id[1]>>].from_ > 1

(* The request of call c fails the validation of its query or, where the
   view reads them, of its headers. *)
ValidationFails(c) ==
    \/ EntityQuery_invalid(c.key, c.replicas)
    \/ IsUpsert(c) /\ EntityHeaders_invalid(c.x_last_modified)

(* The get of call c ended in not_found(): it counted ack replies and found
   no record, or a tombstone. *)
RealNotFound(c) ==
    /\ c.method = "GET"
    /\ c.tasks # <<>>
    /\ Len(c.replies) >= c.ack
    /\ (c.result = PyNone \/ c.result.value = None)

(* C22 - Error middleware: a request whose query or headers fail validation
   is answered 400; a request to a path without a route, whose 404 is not
   marked as a real not-found, is answered 400; and a request is answered
   404 exactly when its handler raised not_found(). *)
C22_ErrorMiddleware ==
    \A id \in DOMAIN calls :
       LET c == calls[id]
       IN  c.pc = "done" =>
              /\ c.path # EntityPath => c.resp.status = 400
              /\ (c.path = EntityPath /\ ValidationFails(c)) => c.resp.status = 400
              /\ c.resp.status = 404 <=>
                    (c.path = EntityPath /\ ~ValidationFails(c) /\ RealNotFound(c))

(* C22 witness: the request without a route was answered 400 and a GET of a
   key that no replica holds was answered 404. *)
C22_Witness ==
    /\ {<<1>>, <<2>>} \subseteq DOMAIN calls
    /\ calls[<<1>>].path = OtherPath
    /\ calls[<<1>>].resp.status = 400
    /\ calls[<<2>>].pc = "done"
    /\ calls[<<2>>].resp.status = 404
    /\ calls[<<2>>].from_ > 1

(* The records the client upserts of key have asked to write *)
WrittenFor(key) ==
    {Record(UpsertValue(calls[id]), calls[id].timestamp) :
        id \in {i \in ClientIds : /\ IsUpsert(calls[i])
                                  /\ calls[i].key = key
                                  /\ calls[i].pc # "start"}}

(* C23 - No cross-request state: whatever requests for other keys run
   concurrently on the node, the record any node stores for a key is one a
   request for that key has written, and every record a get of a key reads,
   merges or returns is one a request for that key has written; with no
   write of the key, the key is stored nowhere and its get is answered 404. *)
C23_NoCrossRequestState ==
    /\ \A n \in Nodes : \A k \in DOMAIN db[n] : db[n][k] \in WrittenFor(k)
    /\ \A id \in DOMAIN calls :
          LET c == calls[id]
          IN  c.method = "GET" =>
                 /\ \A i \in 1..Len(c.tasks) :
                       c.tasks[i].st = "ok" => c.tasks[i].rec \in WrittenFor(c.key)
                 /\ \A i \in 1..Len(c.replies) :
                       c.replies[i] # PyNone => c.replies[i] \in WrittenFor(c.key)
                 /\ c.result # PyNone => c.result \in WrittenFor(c.key)
                 /\ (c.pc = "done" /\ c.resp.status = 200) =>
                       Record(c.resp.body, c.resp.last_modified) \in WrittenFor(c.key)
                 /\ (c.pc = "done" /\ WrittenFor(c.key) = {}) => c.resp.status = 404

(* C23 witness: the GET of k2 is answered 200 with the record of the PUT of
   k2 after a PUT of k1 with another stamp ran concurrently with that PUT of
   k2 on the same node, while both keys are stored on a common node. *)
C23_Witness ==
    /\ {<<1>>, <<2>>, <<3>>} \subseteq DOMAIN calls
    /\ calls[<<1>>].method = "PUT"
    /\ calls[<<2>>].method = "PUT"
    /\ calls[<<1>>].x_last_modified # calls[<<2>>].x_last_modified
    /\ calls[<<3>>].pc = "done"
    /\ calls[<<3>>].resp.status = 200
    /\ \E n \in Nodes : StoreKeys \subseteq DOMAIN db[n]

(* The handlers that the client request r has caused, itself included, and
   that have written the store of node n: each writes through its one Local
   task. *)
LocalWriters(r, n) ==
    {d \in DOMAIN calls :
        /\ d[1] = r[1]
        /\ calls[d].node = n
        /\ IsUpsert(calls[d])
        /\ \E i \in 1..Len(calls[d].tasks) :
              calls[d].tasks[i].url = Local /\ calls[d].tasks[i].st = "ok"}

(* C24 - At most one local write per request: one client upsert causes at
   most one write of its key to the store of any single node, the writes of
   the handlers of its internal hops included. *)
C24_AtMostOneLocalWrite ==
    \A r \in ClientIds : \A n \in Nodes : Cardinality(LocalWriters(r, n)) <= 1

(* The Present replies of the replica tasks of get call c that have
   completed; once the get has answered, its other tasks are cancelled, so
   these are the replies completed by the moment ack was reached. *)
CompletedPresent(c) ==
    {c.tasks[i].rec : i \in {j \in 1..Len(c.tasks) : c.tasks[j].st = "ok"}}

(* C25 - Merge window: the record a client get returns has the greatest
   timestamp among the Present replies of all its replica tasks completed by
   the moment the ack threshold was reached, those completed beyond the
   first ack included; with no Present reply among them it returns none. *)
C25_MergeWindow ==
    \A id \in ClientIds :
       LET c == calls[id]
       IN  (c.method = "GET" /\ c.pc = "done" /\ c.resp.status \in {200, 404}) =>
              IF CompletedPresent(c) = {} THEN c.result = PyNone
              ELSE /\ c.result # PyNone
                   /\ c.result.timestamp = MaxTimestamp(CompletedPresent(c))

(* C26 - Early quorum failure: a client get or upsert does not stay in its
   loop once its loop has seen more than from_ - ack Failed replica tasks:
   it has then failed with NotEnoughReplicas, whatever tasks are pending. *)
C26_EarlyQuorumFailure ==
    \A id \in ClientIds :
       LET c == calls[id]
       IN  c.pc = "wait" => SeenErrors(id) <= c.from_ - c.ack

(* The replica tasks a watcher may be handed after one client request:
   the tasks of the request, and the one task each of the handlers of its
   hops and of the hops forwarded by them. *)
WatchableTasks ==
    LET I == 1..Len(Membership)
    IN  {<<1, i>> : i \in I} \cup {<<1, i, 1>> : i \in I} \cup {<<1, i, 1, 1>> : i \in I}

(* C27 - Watcher set drains: while the watcher's loop runs and every replica
   task completes, each task handed to the watcher leaves its set after it
   has completed, also a task added while the loop waits for others; and
   from some moment on the set holds no completed task. *)
C27_WatcherDrains ==
    /\ \A t \in WatchableTasks :
          (t \in watcher[DrainNode].tasks) ~> (t \notin watcher[DrainNode].tasks)
    /\ <>[](\A t \in watcher[DrainNode].tasks : ~TaskDone(t))

(* C27 witness: the loop waits for one task while the set already holds a
   task that another handler added during the wait. *)
C27_Witness ==
    /\ watcher[DrainNode].runner = "waiting"
    /\ watcher[DrainNode].waiting # {}
    /\ watcher[DrainNode].tasks \ watcher[DrainNode].waiting # {}

(* The handlers of the internal requests that client request r has caused
   anywhere in the cluster and whose answers have not been read yet. *)
InternalRequests(r) == {d \in DOMAIN calls : Len(d) > 1 /\ d[1] = r[1]}

(* C28 - Bounded forwarding: a client request with quorum parameter from_
   causes at most from_ internal requests in the whole cluster, and no
   internal request comes back to a node that an earlier request of its
   chain was handled by. *)
C28_BoundedForwarding ==
    \A r \in ClientIds :
       /\ calls[r].pc # "start" => Cardinality(InternalRequests(r)) <= calls[r].from_
       /\ \A d \in InternalRequests(r) :
             \A m \in 1..(Len(d) - 1) :
                SubSeq(d, 1, m) \in DOMAIN calls =>
                   calls[SubSeq(d, 1, m)].node # calls[d].node

(* C29 - Upsert is not rolled back: the replica writes of a client upsert
   stay in the stores they reached, also when the upsert fails with
   NotEnoughReplicas (504) having fewer than ack successes, and a later GET
   that is answered with a record answers with the record of that upsert. *)
C29_NoRollback ==
    \A id \in ClientIds :
       LET c == calls[id]
       IN  /\ IsUpsert(c) =>
                /\ \A n \in Nodes :
                      accepted[n][c.key] # {} =>
                         /\ c.key \in DOMAIN db[n]
                         /\ db[n][c.key] = Record(UpsertValue(c), c.timestamp)
                /\ (c.pc = "done" /\ c.resp.status = 504) => c.success < c.ack
           /\ (c.method = "GET" /\ c.pc = "done" /\ c.resp.status = 200) =>
                 c.resp = Response(200, calls[<<1>>].body, calls[<<1>>].timestamp)

(* C29 witness: the PUT was answered 504 after its local write, and the GET
   sent after that answer returns the record of the PUT. *)
C29_Witness ==
    /\ {<<1>>, <<2>>} \subseteq DOMAIN calls
    /\ calls[<<1>>].method = "PUT"
    /\ calls[<<1>>].resp.status = 504
    /\ calls[<<2>>].pc = "done"
    /\ calls[<<2>>].resp = Response(200, calls[<<1>>].body, calls[<<1>>].timestamp)

(* The client upsert <<1>> has been answered with success. *)
UpsertAnswered ==
    /\ <<1>> \in DOMAIN calls
    /\ IsUpsert(calls[<<1>>])
    /\ calls[<<1>>].pc = "done"
    /\ calls[<<1>>].resp.status \in {201, 202}

(* Target i of the client upsert <<1>> has got its write: the node's own
   store has been written with the request's timestamp, or the request of
   the internal hop has been sent to the peer. *)
TargetReached(i) ==
    LET c == calls[<<1>>]
    IN  IF c.tasks[i].url = Local
        THEN c.timestamp \in accepted[c.node][c.key]
        ELSE c.tasks[i].st \in {"sent", "ok", "clienterror"}

(* C30 - Background completion of writes: the replica tasks of an upsert
   that are pending when it answers with success keep running, so with the
   peers reachable and no shutdown every one of its from_ targets is
   eventually reached; and the request a target receives is the upsert's
   write to that target, with the upsert's timestamp. *)
C30_BackgroundCompletion ==
    /\ UpsertAnswered ~> (/\ <<1>> \in DOMAIN calls
                          /\ \A i \in 1..calls[<<1>>].from_ : TargetReached(i))
    /\ [](\A d \in DOMAIN calls :
            (Len(d) = 2 /\ IsUpsert(calls[<<1>>])) =>
               /\ calls[d].node = calls[<<1>>].tasks[d[2]].url
               /\ calls[d].key = calls[<<1>>].key
               /\ calls[d].x_last_modified = calls[<<1>>].timestamp
               /\ UpsertValue(calls[d]) = UpsertValue(calls[<<1>>]))

(* C30 witness: the upsert has answered with success while its third replica
   task has not yet sent its request. *)
C30_Witness ==
    /\ UpsertAnswered
    /\ \E i \in 1..calls[<<1>>].from_ :
          calls[<<1>>].tasks[i].url # Local /\ calls[<<1>>].tasks[i].st = "pending"

(* Task t has been created and is not done: it has not run yet or waits
   for the answer of a peer. *)
TaskPending(t) == TaskState(t) \in {"pending", "sent"}

(* C31 - Every replica task is watched: when a get or upsert waits for its
   first reply all its from_ replica tasks exist; every replica task of a
   node that is not done is in the set of the node's watcher; and once a
   shutdown of the node has cancelled the tasks of the set, no replica task
   of the node is pending. *)
C31_EveryTaskWatched ==
    /\ \A id \in DOMAIN calls :
          calls[id].pc = "wait" => Len(calls[id].tasks) = calls[id].from_
    /\ \A n \in Nodes :
          /\ \A t \in TasksOf(n) : TaskPending(t) => t \in watcher[n].tasks
          /\ watcher[n].phase \in {"gathering", "closed"} =>
                \A t \in TasksOf(n) : ~TaskPending(t)

(* C31 witness: a handler has answered and left a replica task pending,
   which is in the set of the watcher while the watcher's loop waits. *)
C31_Witness ==
    \E id \in ClientIds :
       /\ calls[id].pc = "done"
       /\ watcher[calls[id].node].runner = "waiting"
       /\ \E i \in 1..Len(calls[id].tasks) :
             /\ calls[id].tasks[i].st = "pending"
             /\ Append(id, i) \in watcher[calls[id].node].tasks

(* The store of node n is written in this step by the local replica task of
   an upsert handler of n. *)
WrittenByUpsert(n) ==
    \E id \in DOMAIN calls :
       /\ calls[id].node = n
       /\ IsUpsert(calls[id])
       /\ \E i \in 1..Len(calls[id].tasks) :
             /\ calls[id].tasks[i].url = Local
             /\ calls[id].tasks[i].st = "pending"
             /\ calls'[id].tasks[i].st = "ok"

(* C32 - GET is read-only: every request that a get causes on a peer is a
   GET, and no step of a get or of a handler it caused changes the store of
   any node, whatever the get collects and answers: a store changes only in
   the step of a local replica task of an upsert. *)
C32_GetReadOnly ==
    /\ [](\A d \in DOMAIN calls :
            calls[<<d[1]>>].method = "GET" => calls[d].method = "GET")
    /\ [][\A n \in Nodes : db'[n] # db[n] => WrittenByUpsert(n)]_vars

(* C32 witness: a GET was answered with a record while a node of its
   replica list holds no record of the key. *)
C32_Witness ==
    \E id \in ClientIds :
       /\ calls[id].method = "GET"
       /\ calls[id].pc = "done"
       /\ calls[id].resp.status = 200
       /\ calls[id].from_ = Len(cluster_urls)
       /\ \E n \in Nodes : calls[id].key \notin DOMAIN db[n]

====
